---- MODULE Spec2Model ----
(***************************************************************************)
(* A model of the caddy2 HTML injection plugin: the streaming              *)
(* InjectedWriter of injection.go (content-type gate, line reassembly,     *)
(* marker injection, CSP header and meta-tag rewriting) and the            *)
(* CappedSizeRecorder of filter.go.                                        *)
(*                                                                         *)
(* A Go string is modelled as a sequence of one-character strings, so      *)
(* that slicing, searching and replacing are computed as the Go strings    *)
(* package computes them.  Indices are Go's: 0-based, -1 for "not found".  *)
(* The alphabet is ASCII.                                                  *)
(***************************************************************************)
EXTENDS Integers, Sequences, FiniteSets

VARIABLES
    cfg,      \* the Middleware configuration and the injection file
    resp,     \* one response: its InjectedWriter, the sink behind it, the handler
    csr,      \* one CappedSizeRecorder and the sink behind it
    pure      \* the input and result of a pure function under check

vars == <<cfg, resp, csr, pure>>

----------------------------------------------------------------------------
(* The Go strings package, on sequences of characters.                     *)

SetMin(S) == CHOOSE x \in S : \A y \in S : x <= y

SetMax(S) == CHOOSE x \in S : \A y \in S : x >= y

\* The element of a one-element set. {e : x \in {v}} computes v once, as the
\* code does when it assigns a local variable, and e from that value.
Only(S) == CHOOSE x \in S : TRUE

\* s[lo:hi]
Slice(s, lo, hi) == SubSeq(s, lo + 1, hi)

\* whether s[lo:hi] is within bounds; Go panics otherwise
SliceOK(s, lo, hi) == 0 <= lo /\ lo <= hi /\ hi <= Len(s)

\* whether sub occurs in s at position i
MatchAt(s, sub, i) ==
    \/ sub = <<>>
    \/ (s[i + 1] = sub[1] /\ Slice(s, i, i + Len(sub)) = sub)

\* the positions at which sub occurs in s
Occurrences(s, sub) ==
    {i \in 0..(Len(s) - Len(sub)) : MatchAt(s, sub, i)}

Index(s, sub) ==
    LET occ == Occurrences(s, sub)
    IN  IF occ = {} THEN -1 ELSE SetMin(occ)

LastIndex(s, sub) ==
    LET occ == Occurrences(s, sub)
    IN  IF occ = {} THEN -1 ELSE SetMax(occ)

Contains(s, sub) == Index(s, sub) # -1

HasSuffix(s, suf) ==
    Len(s) >= Len(suf) /\ Slice(s, Len(s) - Len(suf), Len(s)) = suf

\* strings.Split(s, sep), sep not empty
RECURSIVE Split(_, _)
Split(s, sep) ==
    LET i == Index(s, sep)
    IN  IF i = -1
        THEN <<s>>
        ELSE <<Slice(s, 0, i)>> \o Split(Slice(s, i + Len(sep), Len(s)), sep)

\* strings.Replace(s, old, new, 1); an empty old matches at the start of s
Replace(s, old, new) ==
    LET i == Index(s, old)
    IN  IF i = -1
        THEN s
        ELSE Slice(s, 0, i) \o new \o Slice(s, i + Len(old), Len(s))

\* strings.ReplaceAll(s, old, new), old not empty
RECURSIVE ReplaceAll(_, _, _)
ReplaceAll(s, old, new) ==
    LET i == Index(s, old)
    IN  IF i = -1
        THEN s
        ELSE Slice(s, 0, i) \o new
             \o ReplaceAll(Slice(s, i + Len(old), Len(s)), old, new)

IsSpace(c) == c \in {" ", "\t", "\n", "\r"}

RECURSIVE TrimLeft(_)
TrimLeft(s) ==
    IF s # <<>> /\ IsSpace(Head(s)) THEN TrimLeft(Tail(s)) ELSE s

RECURSIVE TrimRight(_)
TrimRight(s) ==
    IF s # <<>> /\ IsSpace(s[Len(s)])
    THEN TrimRight(Slice(s, 0, Len(s) - 1))
    ELSE s

TrimSpace(s) == TrimRight(TrimLeft(s))

UpperCase == <<"A","B","C","D","E","F","G","H","I","J","K","L","M",
               "N","O","P","Q","R","S","T","U","V","W","X","Y","Z">>

LowerCase == <<"a","b","c","d","e","f","g","h","i","j","k","l","m",
               "n","o","p","q","r","s","t","u","v","w","x","y","z">>

LowerChar(c) ==
    IF \E k \in 1..Len(UpperCase) : UpperCase[k] = c
    THEN LowerCase[CHOOSE k \in 1..Len(UpperCase) : UpperCase[k] = c]
    ELSE c

ToLower(s) == [k \in 1..Len(s) |-> LowerChar(s[k])]

\* the concatenation of a sequence of strings
RECURSIVE Concat(_)
Concat(ss) == IF ss = <<>> THEN <<>> ELSE Head(ss) \o Concat(Tail(ss))

----------------------------------------------------------------------------
(* String constants of injection.go.                                       *)

\* "<meta "
metaTag == <<"<","m","e","t","a"," ">>

\* "http-equiv=\"content-security-policy\""
metaCSPPrefix ==
    <<"h","t","t","p","-","e","q","u","i","v","=","\"","c","o","n","t","e",
      "n","t","-","s","e","c","u","r","i","t","y","-","p","o","l","i","c",
      "y","\"">>

\* "content=\""
contentPrefix == <<"c","o","n","t","e","n","t","=","\"">>

\* "</meta>"
metaEnd == <<"<","/","m","e","t","a",">">>

\* "</head>"
closingHead == <<"<","/","h","e","a","d",">">>

\* "/>" and ">" and "\""
slashClose == <<"/",">">>

gtClose == <<">">>

quote == <<"\"">>

\* "'self' https: data: blob: 'unsafe-eval' 'unsafe-inline'"
synthDefaultSrc ==
    <<"'","s","e","l","f","'"," ","h","t","t","p","s",":"," ","d","a","t",
      "a",":"," ","b","l","o","b",":"," ","'","u","n","s","a","f","e","-",
      "e","v","a","l","'"," ","'","u","n","s","a","f","e","-","i","n","l",
      "i","n","e","'">>

\* "'unsafe-inline'"
unsafeInline ==
    <<"'","u","n","s","a","f","e","-","i","n","l","i","n","e","'">>

\* "default-src", "script-src", "style-src"
defaultSrcName == <<"d","e","f","a","u","l","t","-","s","r","c">>

scriptSrcName == <<"s","c","r","i","p","t","-","s","r","c">>

styleSrcName == <<"s","t","y","l","e","-","s","r","c">>

\* "{{csp-nonce}}" and " nonce=\"{{csp-nonce}}\""
noncePlaceholder == <<"{","{","c","s","p","-","n","o","n","c","e","}","}">>

nonceAttr ==
    <<" ","n","o","n","c","e","=","\"">> \o noncePlaceholder \o <<"\"">>

sp == <<" ">>

semi == <<";">>

nl == <<"\n">>

----------------------------------------------------------------------------
(* CSP rewriting.                                                          *)

extractValueForDirective(csp, name) ==
    IF ~Contains(csp, name \o sp)
    THEN <<>>
    ELSE TrimSpace(Split(Split(csp, name \o sp)[2], semi)[1])

\* fmt.Sprintf("'nonce-%s' 'unsafe-inline'", i.cspNonce)
cspSrcArg(nonce) ==
    <<"'","n","o","n","c","e","-">> \o nonce \o <<"'">> \o sp \o unsafeInline

\* lines 187-191: the default-src value in force
defaultSrcOf(csp) ==
    IF Len(extractValueForDirective(csp, defaultSrcName)) = 0
    THEN synthDefaultSrc
    ELSE extractValueForDirective(csp, defaultSrcName)

\* withDefaultSrc with the synthesized default-src put last
withDefaultSrcLast(csp) ==
    IF Len(extractValueForDirective(csp, defaultSrcName)) = 0
    THEN csp \o semi \o sp \o defaultSrcName \o sp \o synthDefaultSrc
    ELSE csp

\* lines 187-191: the policy with a default-src synthesized when absent
withDefaultSrc(csp) ==
    IF Len(extractValueForDirective(csp, defaultSrcName)) = 0
    THEN defaultSrcName \o sp \o synthDefaultSrc \o semi \o sp \o csp
    ELSE csp

\* addSrc without the test for 'unsafe-inline' in an existing directive
addSrcAlways(csp, name, defaultSrc, nonce) ==
    IF Contains(csp, name \o sp)
    THEN Replace(csp, name \o sp, name \o sp \o cspSrcArg(nonce) \o sp)
    ELSE csp \o semi \o sp \o name \o sp \o defaultSrc \o sp
         \o (IF Contains(defaultSrc, unsafeInline) THEN <<>> ELSE cspSrcArg(nonce))

\* addSrc that looks for the directive's name without the space after it
addSrcAnyPrefix(csp, name, defaultSrc, nonce) ==
    IF Contains(csp, name)
    THEN IF ~Contains(extractValueForDirective(csp, name), unsafeInline)
         THEN Replace(csp, name \o sp, name \o sp \o cspSrcArg(nonce) \o sp)
         ELSE csp
    ELSE csp \o semi \o sp \o name \o sp \o defaultSrc \o sp
             \o (IF Contains(defaultSrc, unsafeInline) THEN <<>> ELSE cspSrcArg(nonce))

\* addSrc with the nonce in every directive it appends
addSrcWithNonce(csp, name, defaultSrc, nonce) ==
    IF Contains(csp, name \o sp)
    THEN IF ~Contains(extractValueForDirective(csp, name), unsafeInline)
         THEN Replace(csp, name \o sp, name \o sp \o cspSrcArg(nonce) \o sp)
         ELSE csp
    ELSE csp \o semi \o sp \o name \o sp \o defaultSrc \o sp \o cspSrcArg(nonce)

\* lines 193-208 (script-src) and 209-224 (style-src): one directive's step
addSrc(csp, name, defaultSrc, nonce) ==
    IF Contains(csp, name \o sp)
    THEN IF ~Contains(extractValueForDirective(csp, name), unsafeInline)
         THEN Replace(csp, name \o sp, name \o sp \o cspSrcArg(nonce) \o sp)
         ELSE csp
    ELSE csp \o semi \o sp \o name \o sp \o defaultSrc \o sp
         \o (IF Contains(defaultSrc, unsafeInline) THEN <<>> ELSE cspSrcArg(nonce))

transformCSP(csp, nonce) ==
    addSrc(addSrc(withDefaultSrc(csp), scriptSrcName, defaultSrcOf(csp), nonce),
           styleSrcName, defaultSrcOf(csp), nonce)

----------------------------------------------------------------------------
(* The per-line handlers.                                                  *)

MaxInt32 == 2147483647

\* nonNegativeMin(is ...int), on the set of its arguments
nonNegativeMin(is) ==
    IF {i \in is : MaxInt32 > i /\ i # -1} = {}
    THEN -1
    ELSE SetMin({i \in is : MaxInt32 > i /\ i # -1})

HandleCSPForText(text, nonce) ==
    IF Len(nonce) = 0
    THEN ReplaceAll(text, nonceAttr, <<>>)
    ELSE ReplaceAll(text, noncePlaceholder, nonce)

\* textToInject: the text and whether reading it failed
textToInject(c) ==
    IF Len(c.Inject) = 0
    THEN [text |-> <<>>, err |-> FALSE]
    ELSE IF ~c.fileReadable
         THEN [text |-> <<>>, err |-> TRUE]
         ELSE [text |-> c.fileContent, err |-> FALSE]

\* HandleLine that gives up the line when the payload cannot be read
HandleLineFailing(line, c, nonce) ==
    IF Contains(line, c.Before)
    THEN IF textToInject(c).err
         THEN <<>>
         ELSE Replace(line, c.Before,
                      HandleCSPForText(textToInject(c).text, nonce) \o c.Before)
    ELSE line

HandleLine(line, c, nonce) ==
    IF Contains(line, c.Before)
    THEN IF textToInject(c).err
         THEN line
         ELSE Replace(line, c.Before,
                      HandleCSPForText(textToInject(c).text, nonce) \o c.Before)
    ELSE line

\* fmt.Sprintf("http-equiv=\"content-security-policy\" content=\"%s\" ", goodCsp)
newTagOf(goodCsp) ==
    metaCSPPrefix \o sp \o contentPrefix \o goodCsp \o quote \o sp

\* lines 271-324 of handleCSPForLine, entered with httpEquivIndex >= len(metaTag):
\* the line to return, whether the code returned early (before the end label)
\* and whether a slice expression was out of range (a run-time panic)
metaTagBranch(line, nonce, httpEquivIndex) ==
    LET fullTagToEnd == Slice(line, httpEquivIndex, Len(line))
        endIndexSlashClose == Index(fullTagToEnd, slashClose)
        endIndexMetaEnd == Index(fullTagToEnd, metaEnd)
        endIndexGtImplClose == Index(fullTagToEnd, gtClose)
        endIndex == nonNegativeMin({endIndexSlashClose, endIndexMetaEnd,
                                    endIndexGtImplClose})
        endSuffixLen == IF endIndex = endIndexMetaEnd THEN Len(metaEnd) ELSE 1
        fullTag == Slice(fullTagToEnd, 0, endIndex)
        fullContentAttrStartIndex == Index(fullTag, contentPrefix)
        contentAttrToEnd ==
            Slice(fullTag, fullContentAttrStartIndex + Len(contentPrefix),
                  Len(fullTag))
        contentAttrEndIndex == Index(contentAttrToEnd, quote)
        contentAttrValue == Slice(contentAttrToEnd, 0, contentAttrEndIndex)
        tagStart == LastIndex(Slice(line, 0, httpEquivIndex + 1), metaTag)
        tagEnd == endIndex + httpEquivIndex + endSuffixLen
        keep == [line |-> line, early |-> FALSE, panic |-> FALSE]
    IN  IF ~SliceOK(line, httpEquivIndex, Len(line))
        THEN [line |-> line, early |-> TRUE, panic |-> TRUE]
        ELSE IF endIndex = -1
                \/ (endIndex # endIndexMetaEnd /\ endIndex # endIndexGtImplClose)
        THEN [line |-> line, early |-> TRUE, panic |-> FALSE]
        ELSE IF fullContentAttrStartIndex = -1 THEN keep
        ELSE IF contentAttrEndIndex = -1 THEN keep
        ELSE IF Len(contentAttrValue) = 0 THEN keep
        ELSE IF Contains(contentAttrValue, defaultSrcName)
        THEN [line |-> Replace(line, fullTag,
                               newTagOf(transformCSP(contentAttrValue, nonce))),
              early |-> FALSE, panic |-> FALSE]
        ELSE IF ~SliceOK(line, tagStart, tagEnd)
        THEN [line |-> line, early |-> TRUE, panic |-> TRUE]
        ELSE [line |-> Replace(line, Slice(line, tagStart, tagEnd), <<>>),
              early |-> FALSE, panic |-> FALSE]

\* handleCSPForLine: the line returned, the value of hasSeenClosingHead after
\* the call, and whether the call panicked
handleCSPForLine(line, nonce, hasSeenClosingHead) ==
    LET lowerLine == ToLower(line)
        httpEquivIndex == Index(lowerLine, metaCSPPrefix)
        closingHeadIndex == Index(lowerLine, closingHead)
        b == metaTagBranch(line, nonce, httpEquivIndex)
    IN  IF Len(nonce) = 0 \/ hasSeenClosingHead
        THEN [line |-> line, latch |-> hasSeenClosingHead, panic |-> FALSE]
        ELSE IF httpEquivIndex > closingHeadIndex /\ closingHeadIndex # -1
        THEN [line |-> line, latch |-> TRUE, panic |-> FALSE]
        ELSE IF httpEquivIndex >= Len(metaTag)
        THEN IF b.early
             THEN [line |-> b.line, latch |-> hasSeenClosingHead,
                   panic |-> b.panic]
             ELSE [line |-> b.line, latch |-> (closingHeadIndex # -1),
                   panic |-> FALSE]
        ELSE [line |-> line, latch |-> (closingHeadIndex # -1), panic |-> FALSE]

----------------------------------------------------------------------------
(* The sink: the http.ResponseWriter behind the InjectedWriter.            *)
(* A response r is a record; its header map r.hdr is shared by the writer  *)
(* and the sink (InjectedWriter.Header returns the sink's), r.status is    *)
(* the committed status (0 before the commit), r.sinkHdr the               *)
(* headers as committed and r.out the writes the sink accepted, in order.  *)

StatusOK == 200

\* whether the sink has committed a status (r.status is 0 until then)
Committed(r) == r.status # 0

NoHeader == [set |-> FALSE, val |-> <<>>]

HeaderOf(v) == [set |-> TRUE, val |-> v]

\* http.Header.Get
Get(hdr, name) == IF hdr[name].set THEN hdr[name].val ELSE <<>>

\* the sink's WriteHeader: the first commit fixes the status and the headers
SinkWriteHeader(r, statusCode) ==
    IF Committed(r)
    THEN r
    ELSE [r EXCEPT !.status = statusCode, !.sinkHdr = r.hdr]

\* A fault f names the sink write of a call that goes wrong (f.at, 0 for
\* none), how (f.mode: "err" returns an error, "short" returns none) and how
\* many bytes that write accepts at most (f.n).
NoFault == [at |-> 0, mode |-> "ok", n |-> 0]

\* the sink's Write of b: a body write commits the default status when none
\* was committed; r.sinkRet is what the sink returned: how many of the bytes
\* offered it did not accept (short), and its error
SinkWrite(r, b, failing, f) ==
    LET n == IF failing /\ f.n < Len(b) THEN f.n ELSE Len(b)
        err == IF failing /\ f.mode = "err" THEN "sink" ELSE "nil"
    IN  [SinkWriteHeader(r, StatusOK) EXCEPT
            !.out = Append(r.out, Slice(b, 0, n)),
            !.sinkRet = [short |-> Len(b) - n, err |-> err],
            !.faults = IF err # "nil" \/ n < Len(b) THEN r.faults + 1 ELSE r.faults]

----------------------------------------------------------------------------
(* InjectedWriter.                                                         *)

\* regexp.MatchString for a pattern that is empty, a literal, or ".*" and a
\* literal: an unanchored search for the literal
MatchString(pattern, str) ==
    IF Len(pattern) >= 2 /\ Slice(pattern, 0, 2) = <<".", "*">>
    THEN Contains(str, Slice(pattern, 2, Len(pattern)))
    ELSE Contains(str, pattern)

\* CreateInjectedWriter
InitialStatus(c) == IF Len(c.ContentType) = 0 THEN "matches" ELSE "toBeChecked"

\* the decision of a Write that matched the header with its parameters
DecideContentTypeWholeHeader(r, c) ==
    IF r.contentTypeStatus = "noMatch"
    THEN "noMatch"
    ELSE IF r.contentTypeStatus = "toBeChecked"
            /\ ~MatchString(c.ContentType, Get(r.hdr, "Content-Type"))
    THEN "noMatch"
    ELSE "matches"

\* lines 96-102 of Write: the content-type decision this Write acts on
DecideContentType(r, c) ==
    IF r.contentTypeStatus = "noMatch"
    THEN "noMatch"
    ELSE IF r.contentTypeStatus = "toBeChecked"
            /\ ~MatchString(c.ContentType,
                            Split(Get(r.hdr, "Content-Type"), semi)[1])
    THEN "noMatch"
    ELSE "matches"

\* lines 113-133 of Write: the loop over lines[k..], each through the two
\* handlers and out to the sink; calls counts the sink writes of this Write
\* and f names the one that fails, if any. The result carries the Write's
\* return value in ret, or pc = "panic".
RECURSIVE writeLines(_, _, _, _, _, _, _)
writeLines(r, c, lines, k, last, calls, f) ==
    IF k > last
    THEN r
    ELSE Only({
        IF h.panic
        THEN [r EXCEPT !.pc = "panic", !.ret = [n |-> 0, err |-> "panic"]]
        ELSE Only({Only({
            IF r1.sinkRet.err # "nil"
            THEN [r1 EXCEPT !.ret = [n |-> 0, err |-> "wrapped"]]
            ELSE IF r1.sinkRet.short # 0
            THEN [r1 EXCEPT !.ret = [n |-> Len(newBytes) - r1.sinkRet.short,
                                     err |-> "nil"]]
            ELSE writeLines([r1 EXCEPT !.totalBytesWritten =
                                           r.totalBytesWritten + Len(newBytes)],
                            c, lines, k + 1, last, calls + 1, f)
            : r1 \in {SinkWrite([r EXCEPT !.hasSeenClosingHead = h.latch],
                                newBytes, f.at = calls + 1, f)}})
            : newBytes \in {HandleLine(h.line, c, r.cspNonce) \o nl}})
        : h \in {handleCSPForLine(lines[k], r.cspNonce, r.hasSeenClosingHead)}})

\* writeActive that leaves the lines it forwarded in the accumulator
writeActiveKeeping(r, c, bytes, f) ==
    LET recordedString == r.RecordedHTML \o bytes
        isLastLineComplete == HasSuffix(recordedString, nl)
        r0 == [r EXCEPT !.contentTypeStatus = "matches",
                        !.RecordedHTML = recordedString,
                        !.ret = [n |-> Len(bytes), err |-> "nil"]]
    IN  IF ~Contains(recordedString, nl)
        THEN r0
        ELSE Only({
            writeLines(r0, c, lines, 1,
                       IF isLastLineComplete THEN Len(lines) ELSE Len(lines) - 1,
                       0, f)
            : lines \in {Split(recordedString, nl)}})

\* lines 104-135 of Write, on the active path
writeActive(r, c, bytes, f) ==
    LET recordedString == r.RecordedHTML \o bytes
        isLastLineComplete == HasSuffix(recordedString, nl)
        r0 == [r EXCEPT !.contentTypeStatus = "matches",
                        !.RecordedHTML = <<>>,
                        !.ret = [n |-> Len(bytes), err |-> "nil"]]
    IN  IF ~Contains(recordedString, nl)
        THEN [r0 EXCEPT !.RecordedHTML = recordedString]
        ELSE Only({Only({
            IF r1.pc = "panic" \/ r1.faults # r.faults \/ isLastLineComplete
            THEN r1
            ELSE [r1 EXCEPT !.RecordedHTML = lines[Len(lines)]]
            : r1 \in {writeLines(r0, c, lines, 1,
                                 IF isLastLineComplete
                                 THEN Len(lines) ELSE Len(lines) - 1,
                                 0, f)}})
            : lines \in {Split(recordedString, nl)}})

\* writePassthrough that also keeps the bytes in the accumulator
writePassthroughRecording(r, bytes, f) ==
    LET r1 == SinkWrite([r EXCEPT !.contentTypeStatus = "noMatch",
                                  !.RecordedHTML = r.RecordedHTML \o bytes],
                        bytes, f.at = 1, f)
    IN  [r1 EXCEPT !.ret = [n |-> Len(bytes) - r1.sinkRet.short,
                            err |-> r1.sinkRet.err]]

\* lines 96-102 of Write, on the passthrough path: the sink's own return
writePassthrough(r, bytes, f) ==
    LET r1 == SinkWrite([r EXCEPT !.contentTypeStatus = "noMatch"], bytes,
                        f.at = 1, f)
    IN  [r1 EXCEPT !.ret = [n |-> Len(bytes) - r1.sinkRet.short,
                            err |-> r1.sinkRet.err]]

\* InjectedWriter.Write
Write(r, c, bytes, f) ==
    IF DecideContentType(r, c) = "noMatch"
    THEN writePassthrough(r, bytes, f)
    ELSE writeActive(r, c, bytes, f)

\* HandleCSP gated on the raw header value, whitespace included
HandleCSPUntrimmed(r, nonce, randOk) ==
    IF Len(Get(r.hdr, "Content-Security-Policy")) # 0
    THEN IF randOk
         THEN [r EXCEPT !.cspNonce = nonce,
                        !.hdr["Content-Security-Policy"] =
                            HeaderOf(transformCSP(
                                Get(r.hdr, "Content-Security-Policy"), nonce))]
         ELSE [r EXCEPT !.cspNonce = <<>>]
    ELSE r

\* HandleCSP, with the token the random source yields (randOk: it did not fail)
HandleCSP(r, nonce, randOk) ==
    IF Len(TrimSpace(Get(r.hdr, "Content-Security-Policy"))) # 0
    THEN IF randOk
         THEN [r EXCEPT !.cspNonce = nonce,
                        !.hdr["Content-Security-Policy"] =
                            HeaderOf(transformCSP(
                                Get(r.hdr, "Content-Security-Policy"), nonce))]
         ELSE [r EXCEPT !.cspNonce = <<>>]
    ELSE r

MaxStatus == 600

ShouldBypassForResponse(r) == Len(Get(r.hdr, "Upgrade")) > 0

\* InjectedWriter.WriteHeader
WriteHeader(r, statusCode, nonce, randOk) ==
    IF statusCode < StatusOK \/ statusCode >= MaxStatus
       \/ ShouldBypassForResponse(r)
    THEN SinkWriteHeader(r, statusCode)
    ELSE SinkWriteHeader(
             [HandleCSP(r, nonce, randOk) EXCEPT !.hdr["Content-Length"] = NoHeader],
             statusCode)

\* InjectedWriter.Flush: the remaining fragment through the two handlers,
\* forwarded without a newline
Flush(r, c, f) ==
    IF Len(r.RecordedHTML) = 0
    THEN [r EXCEPT !.ret = [n |-> 0, err |-> "nil"]]
    ELSE Only({
        IF h.panic
        THEN [r EXCEPT !.pc = "panic", !.ret = [n |-> 0, err |-> "panic"]]
        ELSE Only({Only({
            IF r1.sinkRet.err # "nil"
            THEN [r1 EXCEPT !.ret = [n |-> 0, err |-> "sink"]]
            ELSE [r1 EXCEPT !.totalBytesWritten =
                                r.totalBytesWritten + Len(finalString)
                                - r1.sinkRet.short,
                            !.ret = [n |-> 0, err |-> "nil"]]
            : r1 \in {SinkWrite([r EXCEPT !.hasSeenClosingHead = h.latch],
                                finalString, f.at = 1, f)}})
            : finalString \in {HandleLine(h.line, c, r.cspNonce)}})
        : h \in {handleCSPForLine(r.RecordedHTML, r.cspNonce, r.hasSeenClosingHead)}})

----------------------------------------------------------------------------
(* The response scenarios: configurations, response headers and bodies.    *)

MaxFaults == 1

\* the marker "</body>" and the content-type pattern ".*/html"
markerBody == <<"<","/","b","o","d","y",">">>

patternHTML == <<".","*","/","h","t","m","l">>

\* a content-type pattern that only a parameter of the header matches
patternCharset == <<"c", "h", "a", "r", "s", "e", "t">>

injectPath == <<"i","n","j","e","c","t",".","j","s">>

\* payloads: "<script>x()</script>" and one carrying the nonce placeholder
payloadPlain == <<"<","s","c","r","i","p","t",">","x","(",")","<","/","s","c","r",
          "i","p","t",">">>

payloadNonce == <<"<","s","c","r","i","p","t"," ","n","o","n","c","e","=","\"","{",
          "{","c","s","p","-","n","o","n","c","e","}","}","\"",">","x","(",
          ")","<","/","s","c","r","i","p","t",">">>

MkConfig(contentType, inject, readable, content) ==
    [ContentType |-> contentType, Inject |-> inject, Before |-> markerBody,
     fileReadable |-> readable, fileContent |-> content]

\* base32 (no padding) of 6 random bytes is 10 characters
Nonces == {<<"M","F","R","G","G","Z","D","F","M","Y">>,
           <<"A","A","A","A","A","A","A","A","B","7">>}

ctHTML == <<"t","e","x","t","/","h","t","m","l">>

ctHTMLCharset == <<"t","e","x","t","/","h","t","m","l",";"," ","c","h","a","r","s",
          "e","t","=","u","t","f","-","8">>

ctJSON == <<"a","p","p","l","i","c","a","t","i","o","n","/","j","s","o","n">>

cspSelf == <<"d","e","f","a","u","l","t","-","s","r","c"," ","'","s","e","l",
          "f","'",";"," ","s","c","r","i","p","t","-","s","r","c"," ","'",
          "s","e","l","f","'">>

cspNoDefault == <<"f","r","a","m","e","-","a","n","c","e","s","t","o","r","s"," ",
          "'","s","e","l","f","'",";"," ","s","c","r","i","p","t","-","s",
          "r","c"," ","'","s","e","l","f","'"," ","e","x","a","m","p","l",
          "e",".","c","o","m">>

cspBlank == <<" "," ">>

MkHeaders(ct, csp, cl, up) ==
    [h \in {"Content-Type", "Content-Security-Policy", "Content-Length", "Upgrade"}
        |-> CASE h = "Content-Type" -> ct
              [] h = "Content-Security-Policy" -> csp
              [] h = "Content-Length" -> cl
              [] OTHER -> up]

\* response bodies
bodyE2E == <<"<","h","t","m","l",">","<","h","e","a","d",">","<","/","h","e",
          "a","d",">","<","b","o","d","y",">","h","e","l","l","o","<","/",
          "b","o","d","y",">","<","/","h","t","m","l",">","\n">>

bodyPlain == <<"a","b","\n","\n","c","d","\r","\n","e","f">>

bodyShort == <<"a","<","/","b","o","d","y",">","\n","b">>

bodyTwoLines == <<"a","\n","b","\n">>

bodyMarkerTwice == <<"x","<","/","b","o","d","y",">","<","/","b","o","d","y",">","\n",
          "<","/","b","o","<","/","b","o","d","y",">">>

bodyMetaRewrite ==
    <<"<","m","e","t","a"," ","h","t","t","p","-","e","q","u","i","v",
          "=","\"","C","o","n","t","e","n","t","-","S","e","c","u","r","i",
          "t","y","-","P","o","l","i","c","y","\""," ","c","o","n","t","e",
          "n","t","=","\"","d","e","f","a","u","l","t","-","s","r","c"," ",
          "'","s","e","l","f","'","\"",">","\n","<","/","h","e","a","d",
          ">">>

bodyMetaUpper ==
    <<"<","M","E","T","A"," ","h","t","t","p","-","e","q","u","i","v",
          "=","\"","c","o","n","t","e","n","t","-","s","e","c","u","r","i",
          "t","y","-","p","o","l","i","c","y","\""," ","c","o","n","t","e",
          "n","t","=","\"","i","m","g","-","s","r","c"," ","*","\"",">",
          "\n">>

\* A response before its handler runs. Beside the writer's and the sink's
\* fields it records the handler's body and how much of it was written
\* (body, sent), where ServeHTTP stands (pc), the last return value (ret),
\* the sink faults so far, the headers the handler set (hdr0), whether
\* WriteHeader was called, bypassed, and what the random source did, and the
\* choices the scenario leaves to the handler and the sink.
MkResponse(hdr, body, faultsLeft, codes, rands, cuts, c) ==
    [hdr |-> hdr, status |-> 0, sinkHdr |-> hdr, out |-> <<>>,
     contentTypeStatus |-> InitialStatus(c), RecordedHTML |-> <<>>,
     cspNonce |-> <<>>, hasSeenClosingHead |-> FALSE, totalBytesWritten |-> 0,
     body |-> body, sent |-> <<>>, pc |-> "handler",
     ret |-> [short |-> 0, err |-> "nil"],
     sinkRet |-> [short |-> 0, err |-> "nil"],
     faults |-> 0, maxFaults |-> faultsLeft,
     headerCalled |-> FALSE, bypassed |-> FALSE, randOk |-> TRUE, hdr0 |-> hdr,
     codes |-> codes, rands |-> rands, cuts |-> cuts]

\* the status codes a handler commits
StatusCodes == {199, 200, 404, 599, 600}

\* header gating: every header combination, a short body
HeaderScenarios ==
    {<<MkConfig(p, injectPath, TRUE, payloadPlain),
       MkHeaders(ct, csp, HeaderOf(<<"1","0">>), up), bodyShort, 0,
       StatusCodes, BOOLEAN, {5, Len(bodyShort)}>> :
        p \in {<<>>, patternHTML},
        ct \in {NoHeader, HeaderOf(ctHTML), HeaderOf(ctHTMLCharset), HeaderOf(ctJSON)},
        csp \in {NoHeader, HeaderOf(<<>>), HeaderOf(cspBlank), HeaderOf(cspSelf),
                 HeaderOf(cspNoDefault)},
        up \in {NoHeader, HeaderOf(<<"w","e","b","s","o","c","k","e","t">>)}}

\* marker injection: an HTML response, every payload, bodies with the marker
MarkerScenarios ==
    {<<MkConfig(patternHTML, inj[1], inj[2], inj[3]),
       MkHeaders(HeaderOf(ctHTML), csp, NoHeader, NoHeader), body, 0,
       {StatusOK}, {TRUE}, 1..Len(body)>> :
        inj \in {<<injectPath, TRUE, payloadPlain>>, <<injectPath, TRUE, payloadNonce>>,
                 <<injectPath, FALSE, <<>> >>, <<<<>>, FALSE, <<>> >>},
        csp \in {NoHeader, HeaderOf(cspSelf)},
        body \in {bodyE2E, bodyPlain, bodyTwoLines, bodyMarkerTwice}}

\* CSP meta tags: an HTML response whose body carries one
MetaScenarios ==
    {<<MkConfig(patternHTML, injectPath, TRUE, payloadPlain),
       MkHeaders(HeaderOf(ctHTML), csp, NoHeader, NoHeader), body, 0,
       {StatusOK}, {TRUE}, 1..Len(body)>> :
        csp \in {NoHeader, HeaderOf(cspSelf)},
        body \in {bodyMetaRewrite, bodyMetaUpper}}

\* a sink that fails or accepts a short write
FaultScenarios ==
    {<<MkConfig(patternHTML, injectPath, TRUE, payloadPlain),
       MkHeaders(HeaderOf(ct), NoHeader, NoHeader, NoHeader), bodyShort, MaxFaults,
       {StatusOK}, {TRUE}, 1..Len(bodyShort)>> :
        ct \in {ctHTML, ctJSON}}

\* a pattern that matches the header's parameters but not its media type
ContentTypeScenarios ==
    {<<MkConfig(patternCharset, injectPath, TRUE, payloadPlain),
       MkHeaders(ct, NoHeader, NoHeader, NoHeader),
       bodyShort, 0, {StatusOK}, {TRUE}, {5, Len(bodyShort)}>> :
        ct \in {NoHeader, HeaderOf(ctHTML), HeaderOf(ctHTMLCharset)}}

Scenarios ==
    HeaderScenarios \cup MarkerScenarios \cup MetaScenarios \cup FaultScenarios
        \cup ContentTypeScenarios

\* the ways a sink write of this call may go wrong
Faults(r) ==
    IF r.faults < r.maxFaults
    THEN {NoFault} \cup [at : {1, 2}, mode : {"err", "short"}, n : {0, 1}]
    ELSE {NoFault}

Rest(r) == Slice(r.body, Len(r.sent), Len(r.body))

----------------------------------------------------------------------------
(* One response through Middleware.ServeHTTP.                              *)

Idle == [state |-> "idle"]

\* The state keeps a call's return value (n, err) as the shortfall of n against
\* the bytes the call was given, Len(bytes) - n, and err: the same value, in a
\* form that does not grow with the length of the write.
Returned(r, offered) ==
    [r EXCEPT !.ret = [short |-> offered - r.ret.n, err |-> r.ret.err]]

Init ==
    /\ \E s \in Scenarios :
          /\ cfg = s[1]
          /\ resp = MkResponse(s[2], s[3], s[4], s[5], s[6], s[7], s[1])
    /\ csr = Idle
    /\ pure = Idle

\* the handler commits a status before its first body write
DoWriteHeader ==
    /\ resp.pc = "handler"
    /\ ~resp.headerCalled
    /\ resp.sent = <<>>
    /\ \E statusCode \in resp.codes, nonce \in Nonces, randOk \in resp.rands :
          resp' = [WriteHeader(resp, statusCode, nonce, randOk) EXCEPT
                      !.headerCalled = TRUE,
                      !.randOk = randOk,
                      !.bypassed = (statusCode < StatusOK \/ statusCode >= MaxStatus
                                    \/ ShouldBypassForResponse(resp))]
    /\ UNCHANGED <<cfg, csr, pure>>

\* the handler writes the next bytes of its body, cut where the scenario allows
DoWrite ==
    /\ resp.pc = "handler"
    /\ \E k \in resp.cuts \cap 1..Len(Rest(resp)), f \in Faults(resp) :
          \E bytes \in {Slice(Rest(resp), 0, k)} :
             \E r \in {Write([resp EXCEPT !.sent = resp.sent \o bytes], cfg, bytes, f)} :
                resp' = Returned(r, k)
    /\ UNCHANGED <<cfg, csr, pure>>

\* the handler returns nil: ServeHTTP flushes the writer
ServeHTTPFlush ==
    /\ resp.pc = "handler"
    /\ \E f \in Faults(resp) :
          \E r \in {Flush(resp, cfg, f)} :
             resp' = IF r.pc = "panic"
                     THEN Returned(r, 0)
                     ELSE [Returned(r, 0) EXCEPT !.pc = "done"]
    /\ UNCHANGED <<cfg, csr, pure>>

\* the handler returns an error: ServeHTTP returns it without the flush
ServeHTTPError ==
    /\ resp.pc = "handler"
    /\ resp' = [resp EXCEPT !.pc = "error", !.ret = [short |-> 0, err |-> "handler"]]
    /\ UNCHANGED <<cfg, csr, pure>>

Next == DoWriteHeader \/ DoWrite \/ ServeHTTPFlush \/ ServeHTTPError

Spec == Init /\ [][Next]_vars
----------------------------------------------------------------------------
(* Properties of one response (specification Spec).                        *)

\* the bytes the sink accepted, in order
Forwarded(r) == Concat(r.out)

\* the complete lines of s, each with its newline, then the fragment left over
LinesOf(s) ==
    LET ls == Split(s, nl)
    IN  [k \in 1..(Len(ls) - 1) |-> ls[k] \o nl]
        \o (IF ls[Len(ls)] = <<>> THEN <<>> ELSE <<ls[Len(ls)]>>)

\* the response run again from its committed headers with its whole body in
\* one Write, then the Flush
OneWrite(r, c) ==
    Flush(Write([r EXCEPT !.out = <<>>, !.RecordedHTML = <<>>,
                          !.hasSeenClosingHead = FALSE,
                          !.contentTypeStatus = InitialStatus(c),
                          !.totalBytesWritten = 0, !.pc = "handler"],
                c, r.sent, NoFault),
          c, NoFault)

\* C1: on an active response whose lines the handlers leave unchanged (no
\* marker in the body, no nonce), however the body is cut into Writes, after
\* the Flush the sink has received exactly the input: one write per complete
\* line, ending in its single newline, then the fragment without a newline.
C1_ReassemblyKeepsBytes ==
    (/\ resp.pc = "done"
     /\ resp.contentTypeStatus = "matches"
     /\ resp.faults = 0
     /\ resp.cspNonce = <<>>
     /\ ~Contains(resp.sent, cfg.Before))
    => /\ Forwarded(resp) = resp.sent
       /\ resp.out = LinesOf(resp.sent)

\* C2: on an active response the output after the Flush does not depend on
\* where the body was cut: it is the output of the same body in one Write.
C2_CutIndependent ==
    (/\ resp.pc = "done"
     /\ resp.contentTypeStatus = "matches"
     /\ resp.faults = 0)
    => Forwarded(resp) = Forwarded(OneWrite(resp, cfg))

\* The passthrough contract of one step (C3): once the content-type decision is noMatch it stays noMatch, the
\* accumulator is empty, every Write appends to the sink exactly the bytes it
\* was given (as far as the sink accepts them) and returns what the sink
\* returned, the Flush forwards nothing, and with a sink that accepts
\* everything the forwarded body is the input body; Content-Type
\* application/json against the pattern .*/html is decided noMatch.
C3_PassthroughStep ==
    /\ resp.contentTypeStatus = "noMatch" => resp'.contentTypeStatus = "noMatch"
    /\ resp'.contentTypeStatus = "noMatch" =>
          /\ resp'.RecordedHTML = <<>>
          /\ resp'.faults = 0 => Forwarded(resp') = resp'.sent
    /\ (resp'.contentTypeStatus = "noMatch" /\ resp'.sent # resp.sent) =>
          /\ Len(resp'.out) = Len(resp.out) + 1
          /\ resp'.out[Len(resp'.out)] =
                Slice(resp'.sent, Len(resp.sent),
                      Len(resp'.sent) - resp'.sinkRet.short)
          /\ resp'.ret = resp'.sinkRet
    /\ (resp.contentTypeStatus = "noMatch" /\ resp'.pc = "done") =>
          resp'.out = resp.out
    /\ (/\ cfg.ContentType = patternHTML
        /\ Get(resp.hdr, "Content-Type") = ctJSON
        /\ resp'.sent # <<>>) => resp'.contentTypeStatus = "noMatch"

\* C3: every step of a response keeps the passthrough contract above.
C3_Passthrough == [][C3_PassthroughStep]_vars

C3_Witness ==
    /\ resp.pc = "done"
    /\ resp.contentTypeStatus = "noMatch"
    /\ Get(resp.hdr, "Content-Type") = ctJSON
    /\ Len(resp.out) >= 2
    /\ resp.sent = bodyShort
    /\ Contains(Forwarded(resp), cfg.Before)

\* the first position of the marker in a line that contains it
FirstMarker(line, marker) ==
    CHOOSE i \in 0..(Len(line) - Len(marker)) :
        /\ Slice(line, i, i + Len(marker)) = marker
        /\ \A j \in 0..(i - 1) : Slice(line, j, j + Len(marker)) # marker

\* HandleLine on a line, with a readable payload: the payload once, right
\* before the first marker, nothing else changed; no marker, no change
InsertsOnce(line, c, nonce) ==
    IF \E i \in 0..(Len(line) - Len(c.Before)) :
          Slice(line, i, i + Len(c.Before)) = c.Before
    THEN HandleLine(line, c, nonce) =
            Slice(line, 0, FirstMarker(line, c.Before))
            \o HandleCSPForText(c.fileContent, nonce)
            \o Slice(line, FirstMarker(line, c.Before), Len(line))
    ELSE HandleLine(line, c, nonce) = line

\* "<html><head></head><body>hello<script>x()</script></body></html>\n"
expectedE2E ==
    <<"<","h","t","m","l",">","<","h","e","a","d",">","<","/","h","e",
          "a","d",">","<","b","o","d","y",">","h","e","l","l","o","<","s",
          "c","r","i","p","t",">","x","(",")","<","/","s","c","r","i","p",
          "t",">","<","/","b","o","d","y",">","<","/","h","t","m","l",">",
          "\n">>

\* C4: with a readable payload every line of the body gets the payload once,
\* right before its first marker, and is otherwise unchanged; and the body
\* <html><head></head><body>hello</body></html>\n with marker </body> and
\* payload <script>x()</script> comes out with the payload before </body>.
C4_InjectsBeforeMarker ==
    (/\ resp.pc = "done"
     /\ resp.contentTypeStatus = "matches"
     /\ resp.faults = 0
     /\ Len(cfg.Inject) > 0 /\ cfg.fileReadable)
    => /\ \A k \in 1..Len(Split(resp.sent, nl)) :
             InsertsOnce(Split(resp.sent, nl)[k], cfg, resp.cspNonce)
       /\ (/\ resp.sent = bodyE2E
           /\ cfg.Before = markerBody
           /\ cfg.fileContent = payloadPlain) => Forwarded(resp) = expectedE2E

\* whether a header value is absent, empty or white space
Blank(h) == Len(TrimSpace(IF h.set THEN h.val ELSE <<>>)) = 0

CSPName == "Content-Security-Policy"

C9_BypassedIsUntouched ==
    resp.bypassed =>
        /\ resp.sinkHdr = resp.hdr0
        /\ resp.hdr = resp.hdr0
        /\ resp.cspNonce = <<>>
        /\ resp.RecordedHTML = <<>>
        /\ resp.faults = 0 => Forwarded(resp) = resp.sent

\* C10: the meta-tag handler returns a line for every line it is given; no
\* slice of it is out of range.
C10_MetaHandlerNeverPanics == resp.pc # "panic"

----------------------------------------------------------------------------
(* transformCSP as a pure function (specification SpecCSP): the policies   *)
(* are every sequence of up to MaxDirectives directives of different names *)
(* from a pool, joined by "; " or ";".                                     *)

MaxDirectives == 3

nSelf == <<"'","s","e","l","f","'">>

DirectivePool ==
    {<<defaultSrcName, nSelf>>,
     <<defaultSrcName, nSelf \o sp \o unsafeInline>>,
     <<scriptSrcName, nSelf>>,
     <<scriptSrcName, nSelf \o sp \o unsafeInline>>,
     <<styleSrcName, nSelf>>,
     <<styleSrcName, unsafeInline>>,
     <<<<"i","m","g","-","s","r","c">>, <<"*">>>>,
     <<<<"s","c","r","i","p","t","-","s","r","c","-","e","l","e","m">>, nSelf>>,
     <<<<"s","t","y","l","e","-","s","r","c","-","a","t","t","r">>, <<"'","n","o","n","e","'">>>>}

\* the sequences of at most n directives of the pool, no name twice
RECURSIVE DirectiveLists(_)
DirectiveLists(n) ==
    IF n = 0
    THEN {<<>>}
    ELSE DirectiveLists(n - 1)
         \cup {Append(ds, d) : ds \in {x \in DirectiveLists(n - 1) : Len(x) = n - 1},
                               d \in DirectivePool}

DistinctNames(ds) ==
    \A i, j \in 1..Len(ds) : i # j => ds[i][1] # ds[j][1]

RECURSIVE JoinDirectives(_, _)
JoinDirectives(ds, sep) ==
    IF ds = <<>>
    THEN <<>>
    ELSE Head(ds)[1] \o sp \o Head(ds)[2]
         \o (IF Len(ds) = 1 THEN <<>> ELSE sep \o JoinDirectives(Tail(ds), sep))

Policies ==
    {JoinDirectives(ds, sep) :
        ds \in {x \in DirectiveLists(MaxDirectives) : x # <<>> /\ DistinctNames(x)},
        sep \in {semi \o sp, semi}}

InitCSP ==
    /\ cfg = Idle
    /\ resp = Idle
    /\ csr = Idle
    /\ \E csp \in Policies, nonce \in Nonces :
          pure = [state |-> "input", csp |-> csp, nonce |-> nonce, out |-> <<>>]

ApplyTransformCSP ==
    /\ pure.state = "input"
    /\ pure' = [pure EXCEPT !.state = "output",
                            !.out = transformCSP(pure.csp, pure.nonce)]
    /\ UNCHANGED <<cfg, resp, csr>>

NextCSP == ApplyTransformCSP

SpecCSP == InitCSP /\ [][NextCSP]_vars

\* A policy read as a browser reads it: the directives between the ";", each
\* a name and its sources separated by spaces.
Pieces(csp) ==
    LET parts == Split(csp, semi)
    IN  [k \in 1..Len(parts) |-> TrimSpace(parts[k])]

NameOf(piece) == Split(piece, sp)[1]

SourcesOf(piece) == SelectSeq(Tail(Split(piece, sp)), LAMBDA t : t # <<>>)

\* the positions of the directives of that name among the pieces ps
Named(ps, name) == {k \in 1..Len(ps) : NameOf(ps[k]) = name}

Declares(piece, source) ==
    LET srcs == SourcesOf(piece)
    IN  \E k \in 1..Len(srcs) : srcs[k] = source

nonceSource(nonce) == <<"'","n","o","n","c","e","-">> \o nonce \o <<"'">>

\* what the claim says of the first directive of that name, before and after
NonceAdded(before, after, name, nonce) ==
    IF Declares(before, unsafeInline)
    THEN after = before
    ELSE /\ NameOf(after) = name
         /\ SourcesOf(after) = <<nonceSource(nonce), unsafeInline>> \o SourcesOf(before)

\* C6: a script-src (style-src) directive that does not declare
\* 'unsafe-inline' gets 'nonce-<token>' 'unsafe-inline' right after its name
\* and keeps its sources; one that declares it is unchanged; no second
\* directive of the name is added; default-src, when present, is unchanged.
\* For default-src 'self'; script-src 'self' the script-src comes out with
\* 'self', the nonce and 'unsafe-inline'.
C6_NonceAddedToExistingDirective ==
    LET ins == Pieces(pure.csp)
        outs == Pieces(pure.out)
    IN  pure.state = "output" =>
            /\ \A name \in {scriptSrcName, styleSrcName} :
                  Named(ins, name) # {} =>
                     /\ Cardinality(Named(outs, name)) = Cardinality(Named(ins, name))
                     /\ NonceAdded(ins[SetMin(Named(ins, name))],
                                   outs[SetMin(Named(outs, name))], name, pure.nonce)
            /\ Named(ins, defaultSrcName) # {} =>
                  /\ Cardinality(Named(outs, defaultSrcName)) = 1
                  /\ outs[SetMin(Named(outs, defaultSrcName))] =
                        ins[SetMin(Named(ins, defaultSrcName))]
            /\ pure.csp = cspSelf =>
                  LET d == outs[SetMin(Named(outs, scriptSrcName))]
                  IN  /\ Declares(d, nSelf)
                      /\ Declares(d, nonceSource(pure.nonce))
                      /\ Declares(d, unsafeInline)

C6_Witness ==
    /\ pure.state = "output"
    /\ pure.csp = cspSelf
    /\ Contains(pure.out, scriptSrcName \o sp \o nonceSource(pure.nonce))

NoneOfThree(csp) ==
    LET ps == Pieces(csp)
    IN  /\ Named(ps, defaultSrcName) = {}
        /\ Named(ps, scriptSrcName) = {}
        /\ Named(ps, styleSrcName) = {}

\* C7 as stated: a policy with none of default-src, script-src and style-src
\* comes out as the synthesized default-src, then the policy, then a
\* script-src and a style-src that carry the synthesized value and the nonce.
C7_SynthesizedWithNonce ==
    (pure.state = "output" /\ NoneOfThree(pure.csp)) =>
        Pieces(pure.out) =
            <<defaultSrcName \o sp \o synthDefaultSrc>>
            \o Pieces(pure.csp)
            \o <<scriptSrcName \o sp \o synthDefaultSrc \o sp \o cspSrcArg(pure.nonce),
                 styleSrcName \o sp \o synthDefaultSrc \o sp \o cspSrcArg(pure.nonce)>>

\* C7, amended: a policy with none of default-src, script-src and style-src
\* comes out as the synthesized default-src, then the policy, then a
\* script-src and a style-src that carry the synthesized value and no nonce
\* (the synthesized value declares 'unsafe-inline'): the nonce is nowhere in
\* the result.
C7_SynthesizedWithoutNonce ==
    (pure.state = "output" /\ NoneOfThree(pure.csp)) =>
        /\ Pieces(pure.out) =
              <<defaultSrcName \o sp \o synthDefaultSrc>>
              \o Pieces(pure.csp)
              \o <<scriptSrcName \o sp \o synthDefaultSrc,
                   styleSrcName \o sp \o synthDefaultSrc>>
        /\ ~Contains(pure.out, pure.nonce)

C7_Witness ==
    /\ pure.state = "output"
    /\ NoneOfThree(pure.csp)
    /\ Len(Pieces(pure.csp)) >= 2
    /\ Contains(pure.out, scriptSrcName \o sp \o synthDefaultSrc)
----------------------------------------------------------------------------
(* CappedSizeRecorder: a recorder with a cap in front of a sink.           *)
(*                                                                         *)
(* c.recorder is the httptest.ResponseRecorder (Code, wroteHeader,         *)
(* HeaderMap, Body), c.w the sink, c.flushes the number of calls of Flush  *)
(* and c.ret the last return value of Write. A header is the list of its   *)
(* values. c.state is "fatal" once a log.Fatal has ended the process.      *)

CappedHeaderNames == {"Content-Type"}

NewSink(hdr) ==
    [hdr |-> hdr, status |-> 0, sinkHdr |-> hdr, out |-> <<>>,
     sinkRet |-> [short |-> 0, err |-> "nil"], faults |-> 0]

NewRecorder ==
    [Code |-> StatusOK, wroteHeader |-> FALSE,
     HeaderMap |-> [k \in CappedHeaderNames |-> <<>>], Body |-> <<>>]

NewCappedSizeRecorder(cap, w) ==
    [state |-> "serving", overflowed |-> FALSE, recorder |-> NewRecorder,
     w |-> w, cap |-> cap, flushes |-> 0, ret |-> [n |-> 0, err |-> "nil"],
     writes |-> <<>>]

\* the recorder's WriteHeader: the first call fixes the code
recorderWriteHeader(rec, statusCode) ==
    IF rec.wroteHeader
    THEN rec
    ELSE [rec EXCEPT !.Code = statusCode, !.wroteHeader = TRUE]

\* the recorder's Write: commits the default status when none was written,
\* then appends to the body
recorderWrite(rec, b) ==
    [recorderWriteHeader(rec, StatusOK) EXCEPT !.Body = rec.Body \o b]

\* http.Header.Add of every recorded value to the sink's header
AddAll(hdr, recorded) == [k \in DOMAIN hdr |-> hdr[k] \o recorded[k]]

\* FlushHeaders that commits the status before it adds the recorded headers
CappedFlushHeadersLate(c) ==
    IF ~c.overflowed
    THEN [c EXCEPT !.state = "fatal"]
    ELSE [c EXCEPT !.w = [SinkWriteHeader(c.w, c.recorder.Code) EXCEPT
                            !.hdr = AddAll(c.w.hdr, c.recorder.HeaderMap)]]

CappedFlushHeaders(c) ==
    IF ~c.overflowed
    THEN [c EXCEPT !.state = "fatal"]
    ELSE [c EXCEPT !.w = SinkWriteHeader(
                            [c.w EXCEPT !.hdr = AddAll(c.w.hdr, c.recorder.HeaderMap)],
                            c.recorder.Code)]

\* Flush: the headers, then io.Copy of the recorded body, which is one sink
\* write of the whole body, and none when the body is empty; c.ret is what
\* Flush returns
CappedFlush(c, f) ==
    LET c1 == [CappedFlushHeaders(c) EXCEPT !.flushes = c.flushes + 1]
        body == c.recorder.Body
        w1 == SinkWrite(c1.w, body, f.at = 1, f)
        n == Len(body) - w1.sinkRet.short
    IN  IF c1.state = "fatal"
        THEN c1
        ELSE IF Len(body) = 0
        THEN [c1 EXCEPT !.ret = [n |-> 0, err |-> "nil"]]
        ELSE [c1 EXCEPT
                !.w = w1,
                !.recorder.Body = Slice(body, n, Len(body)),
                !.ret = [n |-> n,
                         err |-> IF w1.sinkRet.err # "nil" THEN w1.sinkRet.err
                                 ELSE IF n < Len(body) THEN "ErrShortWrite"
                                 ELSE "nil"]]

\* Write that keeps recording what it forwards after the overflow
CappedWriteRecording(c, b, f) ==
    LET over == ~c.overflowed /\ Len(b) + Len(c.recorder.Body) > c.cap
        c1 == IF over
              THEN CappedFlush([c EXCEPT !.overflowed = TRUE], f)
              ELSE c
        calls == IF over /\ Len(c.recorder.Body) > 0 THEN 1 ELSE 0
        w1 == SinkWrite(c1.w, b, f.at = calls + 1, f)
    IN  IF over /\ c1.ret.err # "nil"
        THEN c1
        ELSE IF c1.overflowed
        THEN [c1 EXCEPT !.w = w1,
                        !.recorder = recorderWrite(c1.recorder, b),
                        !.ret = [n |-> Len(b) - w1.sinkRet.short,
                                 err |-> w1.sinkRet.err]]
        ELSE [c1 EXCEPT !.recorder = recorderWrite(c1.recorder, b),
                        !.ret = [n |-> Len(b), err |-> "nil"]]

\* Write that overflows as soon as the cap is reached
CappedWriteAtCap(c, b, f) ==
    LET over == ~c.overflowed /\ Len(b) + Len(c.recorder.Body) >= c.cap
        c1 == IF over
              THEN CappedFlush([c EXCEPT !.overflowed = TRUE], f)
              ELSE c
        calls == IF over /\ Len(c.recorder.Body) > 0 THEN 1 ELSE 0
        w1 == SinkWrite(c1.w, b, f.at = calls + 1, f)
    IN  IF over /\ c1.ret.err # "nil"
        THEN c1
        ELSE IF c1.overflowed
        THEN [c1 EXCEPT !.w = w1,
                        !.ret = [n |-> Len(b) - w1.sinkRet.short,
                                 err |-> w1.sinkRet.err]]
        ELSE [c1 EXCEPT !.recorder = recorderWrite(c1.recorder, b),
                        !.ret = [n |-> Len(b), err |-> "nil"]]

\* Write of b; f names the sink write of this call that goes wrong, if any
CappedWrite(c, b, f) ==
    LET over == ~c.overflowed /\ Len(b) + Len(c.recorder.Body) > c.cap
        c1 == IF over
              THEN CappedFlush([c EXCEPT !.overflowed = TRUE], f)
              ELSE c
        calls == IF over /\ Len(c.recorder.Body) > 0 THEN 1 ELSE 0
        w1 == SinkWrite(c1.w, b, f.at = calls + 1, f)
    IN  IF over /\ c1.ret.err # "nil"
        THEN c1
        ELSE IF c1.overflowed
        THEN [c1 EXCEPT !.w = w1,
                        !.ret = [n |-> Len(b) - w1.sinkRet.short,
                                 err |-> w1.sinkRet.err]]
        ELSE [c1 EXCEPT !.recorder = recorderWrite(c1.recorder, b),
                        !.ret = [n |-> Len(b), err |-> "nil"]]

CappedWriteHeader(c, statusCode) ==
    IF c.overflowed
    THEN [c EXCEPT !.state = "fatal"]
    ELSE [c EXCEPT !.recorder = recorderWriteHeader(c.recorder, statusCode)]

\* lines 142-147 of the filter's ServeHTTP: the upstream handler has returned
ServeHTTPAfterNext(c) ==
    IF c.overflowed
    THEN [c EXCEPT !.state = "returned"]
    ELSE CappedFlushHeaders(c)

----------------------------------------------------------------------------
(* An upstream handler writing through one CappedSizeRecorder.             *)

MaxCap == 3
MaxWrites == 3
MaxWriteLen == 2

\* the bytes the handler writes, in order; each write takes the next few
handlerBytes == <<"a","b","c","d","e","f","g","h","i","j","k","l","m","n","o","p",
          "q","r","s","t","u","v","w","x","y","z">>

CappedStatusCodes == {200, 404}

\* the bytes of all of ws, in order
RECURSIVE ConcatAll(_)
ConcatAll(ws) == IF ws = <<>> THEN <<>> ELSE Head(ws) \o ConcatAll(Tail(ws))

CappedFaults(c) ==
    IF c.w.faults < MaxFaults
    THEN {NoFault} \cup [at : {1, 2}, mode : {"err", "short"}, n : {0}]
    ELSE {NoFault}

InitCSR ==
    /\ \E cap \in 0..MaxCap, h \in {<<>>, <<ctJSON>>} :
          csr = NewCappedSizeRecorder(cap, NewSink([k \in CappedHeaderNames |-> h]))
    /\ cfg = Idle
    /\ resp = Idle
    /\ pure = Idle

\* the handler sets a header of its response
CsrSetHeader ==
    /\ csr.state = "serving"
    /\ \E k \in CappedHeaderNames, v \in {ctHTML, ctJSON} :
          /\ csr.recorder.HeaderMap[k] # <<v>>
          /\ csr' = [csr EXCEPT !.recorder.HeaderMap[k] = <<v>>]
    /\ UNCHANGED <<cfg, resp, pure>>

CsrWriteHeader ==
    /\ csr.state = "serving"
    /\ \E code \in CappedStatusCodes :
          csr' = CappedWriteHeader(csr, code)
    /\ csr' # csr
    /\ UNCHANGED <<cfg, resp, pure>>

CsrWrite ==
    /\ csr.state = "serving"
    /\ Len(csr.writes) < MaxWrites
    /\ \E n \in 0..MaxWriteLen, f \in CappedFaults(csr) :
          LET sent == Len(ConcatAll(csr.writes))
              b == Slice(handlerBytes, sent, sent + n)
          IN  csr' = [CappedWrite(csr, b, f) EXCEPT !.writes = Append(csr.writes, b)]
    /\ UNCHANGED <<cfg, resp, pure>>

CsrServeHTTPReturn ==
    /\ csr.state = "serving"
    /\ csr' = ServeHTTPAfterNext(csr)
    /\ UNCHANGED <<cfg, resp, pure>>

NextCSR == CsrSetHeader \/ CsrWriteHeader \/ CsrWrite \/ CsrServeHTTPReturn

SpecCSR == InitCSR /\ [][NextCSR]_vars

\* the write at which the cumulative size of ws first exceeds cap, 0 if none
FirstOver(ws, cap) ==
    LET over == {k \in 1..Len(ws) : Len(ConcatAll(SubSeq(ws, 1, k))) > cap}
    IN  IF over = {} THEN 0 ELSE SetMin(over)

\* what the sink has while the writes stay within the cap, and what it has
\* once write K went over it
C5_Received ==
    (csr.state # "idle" /\ csr.w.faults = 0) =>
        LET ws == csr.writes
            K == FirstOver(ws, csr.cap)
            prior == ConcatAll(SubSeq(ws, 1, K - 1))
        IN  IF K = 0
            THEN /\ ~csr.overflowed
                 /\ csr.flushes = 0
                 /\ ~Committed(csr.w)
                 /\ csr.w.out = <<>>
                 /\ csr.recorder.Body = ConcatAll(ws)
            ELSE /\ csr.overflowed
                 /\ csr.flushes = 1
                 /\ Committed(csr.w)
                 /\ csr.w.status = csr.recorder.Code
                 /\ csr.w.out = (IF prior = <<>> THEN <<>> ELSE <<prior>>)
                                \o SubSeq(ws, K, Len(ws))
                 /\ ConcatAll(csr.w.out) = ConcatAll(ws)

\* the step of the overflow commits the recorded status and headers
C5_FlushStep ==
    (csr.state # "idle" /\ ~csr.overflowed /\ csr'.overflowed) =>
        /\ csr'.w.status = csr.recorder.Code
        /\ csr'.w.sinkHdr = AddAll(csr.w.hdr, csr.recorder.HeaderMap)

\* C5: with a sink that accepts its writes, while the cumulative size of the
\* writes stays within the cap (exactly the cap included) nothing reaches the
\* sink; once it first exceeds the cap at write K there was exactly one
\* flush, the sink has the recorded status and headers, then the bytes of
\* writes 1..K-1 as one write (none when there are none), then write K and
\* every later write as written, and the body it received is the
\* concatenation of all writes.
C5_OverflowFlushesOnce == []C5_Received /\ [][C5_FlushStep]_vars

C5_Witness ==
    /\ csr.state = "serving"
    /\ csr.w.faults = 0
    /\ csr.overflowed
    /\ FirstOver(csr.writes, csr.cap) = 2
    /\ Len(csr.writes) = 3
    /\ Len(csr.writes[3]) > 0
    /\ csr.recorder.HeaderMap["Content-Type"] = <<ctHTML>>
----------------------------------------------------------------------------
(* HandleCSPForText as a pure function (specification SpecText): the       *)
(* payloads are every sequence of up to MaxPayloadPieces pieces from a     *)
(* pool, with a nonce or with none.                                        *)

MaxPayloadPieces == 3

\* pieces of a payload: the placeholder inside the attribute nonce="..." and
\* on its own
PayloadPieces ==
    {<<"<","s","c","r","i","p","t">>, nonceAttr, <<">">>, noncePlaceholder, <<" ","d","a","t","a","-","n","=">>}

RECURSIVE PieceLists(_)
PieceLists(n) ==
    IF n = 0
    THEN {<<>>}
    ELSE PieceLists(n - 1)
         \cup {Append(ps, p) : ps \in {q \in PieceLists(n - 1) : Len(q) = n - 1},
                               p \in PayloadPieces}

InitText ==
    /\ cfg = Idle
    /\ resp = Idle
    /\ csr = Idle
    /\ \E ps \in PieceLists(MaxPayloadPieces), nonce \in Nonces \cup {<<>>} :
          pure = [state |-> "text", pieces |-> ps, nonce |-> nonce, out |-> <<>>]

ApplyHandleCSPForText ==
    /\ pure.state = "text"
    /\ pure' = [pure EXCEPT !.state = "injected",
                            !.out = HandleCSPForText(Concat(pure.pieces), pure.nonce)]
    /\ UNCHANGED <<cfg, resp, csr>>

NextText == ApplyHandleCSPForText

SpecText == InitText /\ [][NextText]_vars

\* a piece with its placeholder replaced by the nonce
WithNonce(piece, nonce) ==
    IF piece = noncePlaceholder THEN nonce
    ELSE IF piece = nonceAttr
    THEN <<" ","n","o","n","c","e","=","\"">> \o nonce \o <<"\"">>
    ELSE piece

\* C11: with a nonce every placeholder of the payload is replaced by the
\* nonce and the rest of the payload is kept; without a nonce no placeholder
\* remains in the text to inject.
C11_NoPlaceholderRemains ==
    pure.state = "injected" =>
        /\ pure.nonce # <<>> =>
              pure.out = Concat([k \in 1..Len(pure.pieces) |->
                                    WithNonce(pure.pieces[k], pure.nonce)])
        /\ ~Contains(pure.out, noncePlaceholder)
----------------------------------------------------------------------------
(* Two responses served concurrently by one Middleware (specification      *)
(* SpecPair). ServeHTTP creates one InjectedWriter per request; a request   *)
(* reaches its writer through the address CreateInjectedWriter returned.    *)
(* The steps of the two handlers interleave in every order.                 *)

Requests == {1, 2}

\* the fields of the InjectedWriter struct that a response changes
WriterFields ==
    {"contentTypeStatus", "RecordedHTML", "cspNonce", "hasSeenClosingHead",
     "totalBytesWritten"}

\* the InjectedWriter of a response record, and the rest of it (its sink and
\* its handler)
WriterOf(r) == [k \in WriterFields |-> r[k]]

RequestOf(r) == [k \in (DOMAIN r) \ WriterFields |-> r[k]]

Joined(q, w) ==
    [k \in (DOMAIN q) \cup (DOMAIN w) |-> IF k \in DOMAIN w THEN w[k] ELSE q[k]]

\* iw := &InjectedWriter{...}: every call allocates a writer of its own
NewWriterShared(i) == 1

CreateInjectedWriterAt(i) == i

\* one call of the handler and what it leaves of the response
HeaderCommitted(r, statusCode, nonce, randOk) ==
    [WriteHeader(r, statusCode, nonce, randOk) EXCEPT
        !.headerCalled = TRUE,
        !.randOk = randOk,
        !.bypassed = (statusCode < StatusOK \/ statusCode >= MaxStatus
                      \/ ShouldBypassForResponse(r))]

Written(r, c, bytes, f) ==
    Only({Returned(w, Len(bytes)) :
            w \in {Write([r EXCEPT !.sent = r.sent \o bytes], c, bytes, f)}})

Flushed(r, c, f) ==
    Only({IF w.pc = "panic"
          THEN Returned(w, 0)
          ELSE [Returned(w, 0) EXCEPT !.pc = "done"] :
            w \in {Flush(r, c, f)}})

Errored(r) == [r EXCEPT !.pc = "error", !.ret = [short |-> 0, err |-> "handler"]]

\* the responses of a pair: HTML with a CSP header, JSON, HTML without CSP
PairResponses(c) ==
    {MkResponse(MkHeaders(ct, csp, NoHeader, NoHeader), bodyShort, 0,
                {StatusOK}, {TRUE}, {5, Len(bodyShort)}, c) :
        ct \in {HeaderOf(ctHTML), HeaderOf(ctJSON)},
        csp \in {NoHeader, HeaderOf(cspSelf)}}

\* the response of request i as its handler sees it
View(p, i) == Joined(p.reqs[i], p.writers[p.at[i]])

\* the pair after a step of request i left its response as r
Stepped(p, i, r, call) ==
    [p EXCEPT !.reqs[i] = RequestOf(r),
              !.writers[p.at[i]] = WriterOf(r),
              !.log[i] = Append(p.log[i], call)]

InitPair ==
    /\ cfg = MkConfig(patternHTML, injectPath, TRUE, payloadNonce)
    /\ \E r1 \in PairResponses(cfg), r2 \in PairResponses(cfg) :
          LET first == [i \in Requests |-> IF i = 1 THEN r1 ELSE r2]
              at == [i \in Requests |-> CreateInjectedWriterAt(i)]
          IN  resp = [state |-> "pair",
                      reqs |-> [i \in Requests |-> RequestOf(first[i])],
                      writers |-> [a \in {at[i] : i \in Requests} |->
                                      WriterOf(first[CHOOSE i \in Requests : at[i] = a])],
                      at |-> at,
                      first |-> first,
                      log |-> [i \in Requests |-> <<>>]]
    /\ csr = Idle
    /\ pure = Idle

PairWriteHeader ==
    /\ \E i \in Requests : \E r \in {View(resp, i)} :
          /\ r.pc = "handler"
          /\ ~r.headerCalled
          /\ r.sent = <<>>
          /\ \E statusCode \in r.codes, nonce \in Nonces, randOk \in r.rands :
                resp' = Stepped(resp, i, HeaderCommitted(r, statusCode, nonce, randOk),
                                [op |-> "WriteHeader", statusCode |-> statusCode,
                                 nonce |-> nonce, randOk |-> randOk])
    /\ UNCHANGED <<cfg, csr, pure>>

PairWrite ==
    /\ \E i \in Requests : \E r \in {View(resp, i)} :
          /\ r.pc = "handler"
          /\ \E k \in r.cuts \cap 1..Len(Rest(r)) :
                \E bytes \in {Slice(Rest(r), 0, k)} :
                   \E w \in {Written(r, cfg, bytes, NoFault)} :
                      resp' = Stepped(resp, i, w, [op |-> "Write", bytes |-> bytes])
    /\ UNCHANGED <<cfg, csr, pure>>

PairFlush ==
    /\ \E i \in Requests : \E r \in {View(resp, i)} :
          /\ r.pc = "handler"
          /\ \E w \in {Flushed(r, cfg, NoFault)} :
                resp' = Stepped(resp, i, w, [op |-> "Flush"])
    /\ UNCHANGED <<cfg, csr, pure>>

PairError ==
    /\ \E i \in Requests : \E r \in {View(resp, i)} :
          /\ r.pc = "handler"
          /\ resp' = Stepped(resp, i, Errored(r), [op |-> "Error"])
    /\ UNCHANGED <<cfg, csr, pure>>

NextPair == PairWriteHeader \/ PairWrite \/ PairFlush \/ PairError

SpecPair == InitPair /\ [][NextPair]_vars

\* the response r after one call of its handler, with no other response
Alone(r, c, call) ==
    CASE call.op = "WriteHeader" ->
            HeaderCommitted(r, call.statusCode, call.nonce, call.randOk)
      [] call.op = "Write" -> Written(r, c, call.bytes, NoFault)
      [] call.op = "Flush" -> Flushed(r, c, NoFault)
      [] OTHER -> Errored(r)

\* the response r after the calls of log, one after the other
RECURSIVE RunAlone(_, _, _)
RunAlone(r, c, log) ==
    IF log = <<>>
    THEN r
    ELSE RunAlone(Alone(r, c, Head(log)), c, Tail(log))

\* every response is as its own calls alone leave it
C12_AsIfAlone ==
    resp.state = "pair" =>
        \A i \in Requests :
            View(resp, i) = RunAlone(resp.first[i], cfg, resp.log[i])

\* a step writes neither the configuration nor the other response
C12_OwnStateStep ==
    resp.state = "pair" =>
        /\ cfg' = cfg
        /\ \A i \in Requests :
              resp'.log[i] = resp.log[i] => View(resp', i) = View(resp, i)

\* C12: two responses served by one middleware do not interfere: no step of
\* request handling writes the configuration, a step of one response leaves
\* the other's writer and sink as they were, and under every interleaving
\* each response, its sink output included, is what its own calls produce
\* when it is served alone.
C12_NoInterference == []C12_AsIfAlone /\ [][C12_OwnStateStep]_vars

C12_Witness ==
    /\ resp.state = "pair"
    /\ \A i \in Requests : View(resp, i).pc = "done"
    /\ View(resp, 1).cspNonce \in Nonces
    /\ View(resp, 2).cspNonce = <<>>
    /\ View(resp, 1).contentTypeStatus = "matches"
    /\ View(resp, 2).contentTypeStatus = "noMatch"
    /\ resp.log[1][2].op = "Write" /\ resp.log[2][1].op = "Write"
    /\ Len(resp.log[1]) = 4 /\ Len(resp.log[2]) = 3
    /\ Contains(Forwarded(View(resp, 1)), View(resp, 1).cspNonce)
----------------------------------------------------------------------------
(* The content-type decision of a response (specification Spec).           *)

\* a header value with everything from its first ";" removed
BeforeSemi(v) ==
    IF Index(v, semi) = -1 THEN v ELSE Slice(v, 0, Index(v, semi))

\* the decision the header and the pattern call for
Resolved(r, c) ==
    IF MatchString(c.ContentType, BeforeSemi(Get(r.hdr, "Content-Type")))
    THEN "matches"
    ELSE "noMatch"

C13_DecisionStep ==
    /\ resp.contentTypeStatus # "toBeChecked" =>
          resp'.contentTypeStatus = resp.contentTypeStatus
    /\ resp.contentTypeStatus = "toBeChecked" =>
          resp'.contentTypeStatus =
              IF resp'.sent # resp.sent THEN Resolved(resp, cfg) ELSE "toBeChecked"

C13_DecisionState ==
    /\ resp.contentTypeStatus \in {"toBeChecked", "noMatch", "matches"}
    /\ resp.sent # <<>> => resp.contentTypeStatus # "toBeChecked"
    /\ cfg.ContentType = <<>> => resp.contentTypeStatus = "matches"

\* C13: the content-type decision only ever moves from undetermined to
\* passthrough or from undetermined to active and then stays; the first Write
\* resolves it, to active exactly when the pattern matches the Content-Type
\* header cut at its first ";"; with no pattern the writer is active from the
\* start whatever the header says.
C13_DecisionOneWay == []C13_DecisionState /\ [][C13_DecisionStep]_vars

C13_Witness ==
    /\ resp.pc = "done"
    /\ cfg.ContentType = patternCharset
    /\ Get(resp.hdr, "Content-Type") = ctHTMLCharset
    /\ resp.contentTypeStatus = "noMatch"
    /\ Len(resp.out) = 2
----------------------------------------------------------------------------
(* Directives the rewriting appends (specification SpecCSP).               *)

\* the sources of the default-src in force: the policy's own, or the
\* synthesized ones when the policy has no default-src
DefaultSources(ps) ==
    IF Named(ps, defaultSrcName) = {}
    THEN SourcesOf(defaultSrcName \o sp \o synthDefaultSrc)
    ELSE SourcesOf(ps[SetMin(Named(ps, defaultSrcName))])

HasUnsafeInline(srcs) == \E k \in 1..Len(srcs) : srcs[k] = unsafeInline

\* the number of directives the rewriting adds to the pieces ps
Added(ps) ==
    Cardinality({name \in {defaultSrcName, scriptSrcName, styleSrcName} :
                    Named(ps, name) = {}})

\* C14: for a policy without script-src (style-src) the rewriting appends
\* exactly one directive of that name, after every directive of the policy;
\* its sources are those of the default-src in force (the policy's, or the
\* synthesized one) followed by 'nonce-<token>' 'unsafe-inline', and that
\* nonce token is left out exactly when the default-src sources declare
\* 'unsafe-inline'. Nothing else is added.
C14_AppendsFromDefaultSrc ==
    LET ins == Pieces(pure.csp)
        outs == Pieces(pure.out)
    IN  pure.state = "output" =>
          /\ Len(outs) = Len(ins) + Added(ins)
          /\ \A name \in {scriptSrcName, styleSrcName} :
                Named(ins, name) = {} =>
                   /\ Cardinality(Named(outs, name)) = 1
                   /\ SetMin(Named(outs, name)) > Len(outs) - 2
                   /\ Named(ins, styleSrcName) = {} =>
                         Named(outs, name) =
                            {IF name = scriptSrcName THEN Len(outs) - 1 ELSE Len(outs)}
                   /\ SourcesOf(outs[SetMin(Named(outs, name))]) =
                         DefaultSources(ins) \o
                            (IF HasUnsafeInline(DefaultSources(ins))
                             THEN <<>>
                             ELSE <<nonceSource(pure.nonce), unsafeInline>>)

C14_Witness ==
    /\ pure.state = "output"
    /\ pure.csp = <<"d","e","f","a","u","l","t","-","s","r","c"," ","'","s","e","l",
          "f","'",";"," ","i","m","g","-","s","r","c"," ","*">>
    /\ pure.out = pure.csp
          \o <<";"," ","s","c","r","i","p","t","-","s","r","c"," ","'","s","e",
          "l","f","'"," ">> \o cspSrcArg(pure.nonce)
          \o <<";"," ","s","t","y","l","e","-","s","r","c"," ","'","s","e","l",
          "f","'"," ">> \o cspSrcArg(pure.nonce)
----------------------------------------------------------------------------
(* Directive names that begin with another directive's name (SpecCSP).     *)

scriptSrcElem == <<"s","c","r","i","p","t","-","s","r","c","-","e","l","e","m">>

styleSrcAttr == <<"s","t","y","l","e","-","s","r","c","-","a","t","t","r">>

\* what follows the name in a directive
ValueOf(piece) == TrimSpace(Slice(piece, Len(NameOf(piece)), Len(piece)))

\* the pieces of the result that the policy's pieces became
Kept(ins, outs) ==
    LET off == IF Named(ins, defaultSrcName) = {} THEN 1 ELSE 0
    IN  [k \in 1..Len(ins) |-> outs[k + off]]

\* C15: the lookup of a directive finds the name only when a space follows
\* it and reads the value up to the next ";" or the end. A policy with
\* script-src-elem (style-src-attr) and no script-src (style-src) is treated
\* as having no script-src (style-src): the lookup gives the empty value,
\* the script-src-elem (style-src-attr) directive stays as it is, and one
\* separate script-src (style-src) directive is appended.
C15_LongerNameIsAnotherDirective ==
    LET ins == Pieces(pure.csp)
        outs == Pieces(pure.out)
    IN  pure.state = "output" =>
          /\ \A name \in {defaultSrcName, scriptSrcName, styleSrcName} :
                extractValueForDirective(pure.csp, name) =
                    IF Named(ins, name) = {}
                    THEN <<>>
                    ELSE ValueOf(ins[SetMin(Named(ins, name))])
          /\ \A pair \in {<<scriptSrcName, scriptSrcElem>>,
                          <<styleSrcName, styleSrcAttr>>} :
                (Named(ins, pair[2]) # {} /\ Named(ins, pair[1]) = {}) =>
                   /\ Named(outs, pair[2]) # {}
                   /\ \A k \in Named(ins, pair[2]) : Kept(ins, outs)[k] = ins[k]
                   /\ Cardinality(Named(outs, pair[2])) = Cardinality(Named(ins, pair[2]))
                   /\ Cardinality(Named(outs, pair[1])) = 1
                   /\ SetMin(Named(outs, pair[1])) > SetMax(Named(outs, pair[2]))
                   /\ Contains(pure.out, semi \o sp \o pair[1] \o sp)

C15_Witness ==
    /\ pure.state = "output"
    /\ pure.csp = <<"d","e","f","a","u","l","t","-","s","r","c"," ","'","s","e","l",
          "f","'",";"," ","s","c","r","i","p","t","-","s","r","c","-","e",
          "l","e","m"," ","'","s","e","l","f","'",";"," ","s","t","y","l",
          "e","-","s","r","c","-","a","t","t","r"," ","'","n","o","n","e",
          "'">>
    /\ pure.out = pure.csp
          \o <<";"," ","s","c","r","i","p","t","-","s","r","c"," ","'","s","e",
          "l","f","'"," ">> \o cspSrcArg(pure.nonce)
          \o <<";"," ","s","t","y","l","e","-","s","r","c"," ","'","s","e","l",
          "f","'"," ">> \o cspSrcArg(pure.nonce)
----------------------------------------------------------------------------
(* handleCSPForLine over the lines of one response (specification          *)
(* SpecLine): the writer hands it one line after the other (line 119 of    *)
(* Write); cspNonce is empty unless the response carried a CSP header, and *)
(* hasSeenClosingHead starts false.                                        *)

MaxLines == 2

\* the pieces of a line: text, a CSP meta tag (or none), text
LineParts ==
    [lead : {<<>>, <<"<","h","e","a","d",">">>, <<"<","/","h","e","a","d",">">>},
     open : {metaTag, <<"<","M","E","T","A"," ">>},
     equiv : {<<"h","t","t","p","-","e","q","u","i","v","=","\"","C","o","n","t",
          "e","n","t","-","S","e","c","u","r","i","t","y","-","P","o","l",
          "i","c","y","\"">>},
     content : {<<" ","c","o","n","t","e","n","t","=","\"","d","e","f","a","u","l",
          "t","-","s","r","c"," ","'","s","e","l","f","'","\"">>, <<" ","c","o","n","t","e","n","t","=","\"","i","m","g","-","s","r",
          "c"," ","*","\"">>,
                <<" ","c","o","n","t","e","n","t","=","\"","\"">>, <<>>},
     term : {slashClose, gtClose, metaEnd, <<>>},
     trail : {<<>>, <<"<","/","h","e","a","d",">">>, <<"<","/","H","E","A","D",">">>, <<"<","t","i","t","l","e",">","t","<","/","t","i","t","l","e",">">>}]
    \cup
    [lead : {<<>>, <<"<","b","o","d","y",">">>},
     open : {<<>>}, equiv : {<<>>}, content : {<<>>}, term : {<<>>},
     trail : {<<>>, <<"<","/","h","e","a","d",">">>, <<"<","/","H","e","A","d",">">>}]

LineOf(p) == p.lead \o p.open \o p.equiv \o p.content \o p.term \o p.trail

InitLine ==
    /\ cfg = Idle
    /\ resp = Idle
    /\ csr = Idle
    /\ \E nonce \in {<<>>, <<"M","F","R","G","G","Z","D","F","M","Y">>} :
          pure = [state |-> "lines", cspNonce |-> nonce,
                  hasSeenClosingHead |-> FALSE, n |-> 0, panic |-> FALSE,
                  parts |-> <<>>, line |-> <<>>, out |-> <<>>, before |-> FALSE]

ApplyHandleCSPForLine ==
    /\ pure.state = "lines"
    /\ pure.n < MaxLines
    /\ ~pure.panic
    /\ \E p \in LineParts :
          \E h \in {handleCSPForLine(LineOf(p), pure.cspNonce, pure.hasSeenClosingHead)} :
             pure' = [pure EXCEPT !.hasSeenClosingHead = h.latch,
                                  !.n = pure.n + 1,
                                  !.panic = h.panic,
                                  !.parts = p,
                                  !.line = LineOf(p),
                                  !.out = h.line,
                                  !.before = pure.hasSeenClosingHead]
    /\ UNCHANGED <<cfg, resp, csr>>

NextLine == ApplyHandleCSPForLine

SpecLine == InitLine /\ [][NextLine]_vars

\* the text between the quotes of the content attribute
ContentValue(p) == Slice(p.content, Len(contentPrefix) + 1, Len(p.content) - 1)

\* the last line held a CSP meta tag with one of the three terminators, was
\* handled with a nonce and the latch unset, and no </head> came before the tag
TagHandled(p) ==
    /\ pure.state = "lines"
    /\ pure.n > 0
    /\ pure.cspNonce # <<>>
    /\ ~pure.before
    /\ p.open # <<>>
    /\ p.term \in {slashClose, gtClose, metaEnd}
    /\ ~Contains(ToLower(p.lead), closingHead)

\* C16: with the latch unset, a CSP meta tag whose content value contains
\* default-src is rewritten whichever of "/>", "</meta>" and ">" ends it: the
\* line comes out as the text before the tag and the tag's opening, the
\* rewritten content attribute, then the terminator and all that follows it.
C16_RewritesUpToAnyTerminator ==
    LET p == pure.parts
    IN  (TagHandled(p) /\ Contains(ContentValue(p), defaultSrcName)) =>
           /\ ~pure.panic
           /\ Slice(pure.out, 0, Len(p.lead \o p.open)) = p.lead \o p.open
           /\ HasSuffix(pure.out, p.term \o p.trail)
           /\ Contains(Slice(pure.out, Len(p.lead \o p.open),
                             Len(pure.out) - Len(p.term \o p.trail)),
                       contentPrefix
                          \o transformCSP(ContentValue(p), pure.cspNonce) \o quote)

\* C17: with the latch unset, a CSP meta tag whose content value is not
\* empty and lacks default-src is removed whole, from "<meta " through its
\* terminator: the line comes out as the text before the tag followed by the
\* text after the terminator.
C17_RemovesWholeTag ==
    LET p == pure.parts
    IN  (/\ TagHandled(p)
         /\ ContentValue(p) # <<>>
         /\ ~Contains(ContentValue(p), defaultSrcName)) =>
           /\ ~pure.panic
           /\ pure.out = p.lead \o p.trail

\* C18: the latch never goes back from true to false; after the handler has
\* processed a line that contains </head>, in any letter case, with or
\* without a CSP meta tag on the line and whichever terminator the tag has,
\* the latch is true; and a line handled with the latch true is returned
\* unchanged.
C18_LatchMonotonicAndComplete ==
    (pure.state = "lines" /\ pure.n > 0 /\ pure.cspNonce # <<>>) =>
        /\ pure.before => pure.hasSeenClosingHead
        /\ Contains(ToLower(pure.line), closingHead) => pure.hasSeenClosingHead
        /\ pure.before => (pure.out = pure.line /\ ~pure.panic)
----------------------------------------------------------------------------
(* Meta-tag handling on the active path (specification Spec).              *)

\* C19: every line of an active response goes through the meta-tag handling
\* while the latch is false, whether or not the response carried a
\* Content-Security-Policy header: the CSP meta tag in the head of the body
\* is rewritten or removed, so the sink never gets the tag as the handler
\* wrote it.
C19_MetaTagHandledWithoutHeader ==
    (/\ resp.pc = "done"
     /\ resp.contentTypeStatus = "matches"
     /\ resp.faults = 0
     /\ resp.sent = bodyMetaRewrite)
    => ~Contains(Forwarded(resp), Split(bodyMetaRewrite, nl)[1])
----------------------------------------------------------------------------
(* A payload that cannot be read (specification Spec).                     *)

\* the writes the sink accepted, without the newline each line ends in
SinkLines(r) ==
    [k \in 1..Len(r.out) |->
        IF HasSuffix(r.out[k], nl)
        THEN Slice(r.out[k], 0, Len(r.out[k]) - 1)
        ELSE r.out[k]]

NothingToInject(c) == Len(c.Inject) = 0 \/ ~c.fileReadable

C20_ReadFailureStep ==
    (/\ resp.pc = "handler"
     /\ NothingToInject(cfg)
     /\ resp.faults = 0 /\ resp'.faults = 0
     /\ resp'.contentTypeStatus = "matches"
     /\ resp'.pc \in {"handler", "done"}) => resp'.ret.err = "nil"

C20_ReadFailureState ==
    (/\ resp.pc = "done"
     /\ NothingToInject(cfg)
     /\ resp.faults = 0
     /\ resp.contentTypeStatus = "matches"
     /\ ~Contains(ToLower(resp.sent), metaCSPPrefix))
    => SelectSeq(SinkLines(resp), LAMBDA l : l # <<>>)
          = SelectSeq(Split(resp.sent, nl), LAMBDA l : l # <<>>)

\* C20: when the payload cannot be read, or no injection path is configured,
\* no Write and no Flush returns an error for it, and every line of the
\* body that is not empty, the lines with the marker included, reaches the
\* sink unchanged and in order, the lines after a marker line too; the
\* sink gets nothing else but newlines.
C20_ReadFailureInjectsNothing ==
    []C20_ReadFailureState /\ [][C20_ReadFailureStep]_vars

C20_Witness ==
    /\ resp.pc = "done"
    /\ cfg.Inject = injectPath
    /\ ~cfg.fileReadable
    /\ resp.sent = bodyMarkerTwice
    /\ resp.contentTypeStatus = "matches"
    /\ Len(resp.out) = 2
    /\ Forwarded(resp) = bodyMarkerTwice
----------------------------------------------------------------------------
(* CappedSizeRecorder after the overflow (specification SpecCSR).          *)

C21_AfterOverflowStep ==
    csr.state # "idle" =>
        /\ csr.overflowed => csr'.overflowed
        /\ csr'.overflowed => HasSuffix(csr.recorder.Body, csr'.recorder.Body)
        /\ csr.overflowed =>
              /\ csr'.recorder.Body = csr.recorder.Body
              /\ csr'.flushes = csr.flushes
        /\ (csr.overflowed /\ csr'.writes # csr.writes) =>
              LET b == csr'.writes[Len(csr'.writes)]
                  n == Len(b) - csr'.w.sinkRet.short
              IN  /\ csr'.w.out = Append(csr.w.out, Slice(b, 0, n))
                  /\ csr'.ret = [n |-> n, err |-> csr'.w.sinkRet.err]

C21_OneFlush ==
    csr.state # "idle" =>
        /\ csr.flushes <= 1
        /\ csr.flushes = 1 => csr.overflowed

\* C21: overflowed only ever goes from false to true; once it is true the
\* recorder's body is never appended to, every Write is one write of its
\* bytes to the sink and returns what the sink returned, and the overflow
\* flush is not performed again: there is at most one flush in a response.
C21_OverflowedIsFinal == []C21_OneFlush /\ [][C21_AfterOverflowStep]_vars

C21_Witness ==
    /\ csr.state = "serving"
    /\ csr.overflowed
    /\ csr.flushes = 1
    /\ FirstOver(csr.writes, csr.cap) = 1
    /\ Len(csr.writes) = 3
    /\ Len(csr.w.out) = 3
    /\ csr.recorder.Body = <<>>
    /\ ConcatAll(csr.w.out) = ConcatAll(csr.writes)
----------------------------------------------------------------------------
(* The commit at the overflow (specification SpecCSR).                     *)

\* the status the handler recorded, the default when it recorded none
RecordedStatus(rec) == IF rec.wroteHeader THEN rec.Code ELSE StatusOK

C22_OverflowStep ==
    (csr.state # "idle" /\ ~csr.overflowed /\ csr'.overflowed) =>
        /\ ~Committed(csr.w)
        /\ csr.w.out = <<>>
        /\ Committed(csr'.w)
        /\ csr'.w.status = RecordedStatus(csr.recorder)
        /\ \A k \in CappedHeaderNames :
              csr'.w.sinkHdr[k] = csr.w.hdr[k] \o csr.recorder.HeaderMap[k]

C22_CommitBeforeBody ==
    csr.state # "idle" =>
        /\ csr.w.out # <<>> => (csr.overflowed /\ Committed(csr.w))
        /\ ~csr.overflowed => ~Committed(csr.w)

\* C22: no body byte reaches the sink before the overflow; the write that
\* overflows commits to the sink, ahead of the body, the headers the
\* handler recorded and a status: the status the handler recorded, or 200
\* when the handler had recorded none.
C22_HeadersAndStatusFirst == []C22_CommitBeforeBody /\ [][C22_OverflowStep]_vars

C22_Witness ==
    /\ csr.state = "serving"
    /\ csr.overflowed
    /\ ~csr.recorder.wroteHeader
    /\ csr.w.status = StatusOK
    /\ csr.w.sinkHdr["Content-Type"] = <<ctHTML>>
    /\ Len(csr.writes) = 1
    /\ csr.w.out = csr.writes
----------------------------------------------------------------------------
(* Failures of the sink and of the handler (specification Spec).           *)

C23_FailureStep ==
    /\ (/\ resp.pc = "handler"
        /\ resp'.sent # resp.sent
        /\ resp'.contentTypeStatus = "matches"
        /\ resp'.faults > resp.faults) =>
          /\ resp'.ret.err # "nil"
          /\ resp'.sinkRet.err # "nil" \/ resp'.sinkRet.short > 0
          /\ \A k \in 1..Len(resp.out) : resp'.out[k] = resp.out[k]
    /\ (resp.pc = "handler" /\ resp'.pc = "error") =>
          /\ resp'.ret.err = "handler"
          /\ resp'.out = resp.out

\* C23: when the sink returns an error for a line, or accepts fewer bytes
\* than the line has, the Write on the active path returns an error, the
\* failed sink write is the last one of the call and what the sink had
\* before is not sent again; when the handler returns an error ServeHTTP
\* returns it and the sink gets nothing more.
C23_SinkFailurePropagates == [][C23_FailureStep]_vars
----------------------------------------------------------------------------
(* The headers the sink committed (specification Spec).                    *)

\* C24: on a response the rewriter is active on and does not bypass, once a
\* body byte has reached the sink the headers the sink committed are the
\* rewritten ones, whether the handler called WriteHeader or left the commit
\* to its first Write: Content-Length is removed, and a Content-Security-Policy
\* header that is not blank has been rewritten with the response's nonce.
C24_HeadersRewrittenBeforeBody ==
    (/\ resp.contentTypeStatus = "matches"
     /\ ~resp.bypassed
     /\ ~ShouldBypassForResponse([hdr |-> resp.hdr0])
     /\ resp.randOk
     /\ resp.out # <<>>)
    => /\ Committed(resp)
       /\ ~resp.sinkHdr["Content-Length"].set
       /\ ~Blank(resp.hdr0[CSPName]) =>
             /\ resp.cspNonce \in Nonces
             /\ Get(resp.sinkHdr, CSPName) =
                   transformCSP(Get(resp.hdr0, CSPName), resp.cspNonce)
----------------------------------------------------------------------------
(* The line accumulator (specification Spec).                              *)

\* what follows the last newline of s, all of s when it has none
TrailingFragment(s) == Split(s, nl)[Len(Split(s, nl))]

\* C25: whenever a Write has returned, with an error or without, the
\* accumulator holds no newline: it holds the end of the still unterminated
\* last line of the input so far, or less, never a complete line.
C25_AccumulatorHoldsNoNewline ==
    resp.pc # "panic" =>
        /\ ~Contains(resp.RecordedHTML, nl)
        /\ HasSuffix(TrailingFragment(resp.sent), resp.RecordedHTML)
        /\ (resp.contentTypeStatus = "matches" /\ resp.faults = 0) =>
              resp.RecordedHTML = TrailingFragment(resp.sent)

C25_Witness ==
    /\ resp.pc = "handler"
    /\ resp.contentTypeStatus = "matches"
    /\ resp.sent = bodyPlain
    /\ resp.RecordedHTML = Slice(bodyPlain, Len(bodyPlain) - 2, Len(bodyPlain))
    /\ Len(resp.out) >= 3
----------------------------------------------------------------------------
(* The fatal guards of CappedSizeRecorder (specification SpecCSR).         *)

\* A handler that commits its status before it writes body bytes calls
\* WriteHeader only while nothing has overflowed, so for such a handler every
\* step from a state that has overflowed is a Write or the return.
C26_NoFatalStep ==
    (csr.state = "serving" /\ ~csr.overflowed) =>
        /\ csr'.state # "fatal"
        /\ csr'.state # "serving" =>
              /\ Committed(csr'.w)
              /\ csr'.w.status = RecordedStatus(csr.recorder)
              /\ ConcatAll(csr'.w.out) = ConcatAll(csr.writes)

\* C26: with a handler that commits its status before its body, no call of
\* the filter's ServeHTTP reaches a fatal guard of CappedSizeRecorder; when
\* the handler returns with a body that stayed within the cap the sink gets
\* the recorded status and the body.
C26_NoFatalGuardReached == [][C26_NoFatalStep]_vars

====
